---- MODULE Spec2Model ----
(***************************************************************************)
(* A model of finger-snake: the streaming-session adapter                  *)
(* (src/services/geminiLive.ts), the camera overlay that drives it         *)
(* (src/components/WebcamOverlay.tsx), the liveness timer of the           *)
(* application shell (src/App.tsx) and the game loop                       *)
(* (src/components/SnakeCanvas.tsx).                                       *)
(*                                                                         *)
(* Status texts of the user interface are written as ASCII codes:          *)
(*   "waiting"        App.tsx:9         "connecting-vision" App.tsx:26     *)
(*   "tracking"       App.tsx:50        "lost"              App.tsx:17     *)
(*   "connecting"     geminiLive.ts:43  "connected"    geminiLive.ts:50    *)
(*   "disconnected"   geminiLive.ts:75 and :135                            *)
(*   "error"          geminiLive.ts:81  "connect-failed" geminiLive.ts:102 *)
(***************************************************************************)
EXTENDS Integers, Sequences, FiniteSets, TLC

VARIABLES
    \* ---- GeminiLiveService (geminiLive.ts:30-35) ----
    session,        \* this.session: NoSession or the id of a session object
    isConnected,    \* this.isConnected
    \* ---- the transport / SDK side of every session ever requested ----
    phase,          \* phase[s]: life cycle of session object s (see Phases)
    \* ---- App state (App.tsx:7-10) ----
    status,         \* useState status
    fingerPos,      \* useState fingerPos {x, y, isActive}
    timer,          \* the pending liveness setTimeout: NoTimer or ms left
    sinceSignal,    \* observer: ms since onFingerMove last ran (capped)
    \* ---- WebcamOverlay (WebcamOverlay.tsx:17-22) ----
    isGameActive,   \* the isGameActive prop as last seen by the effect
    intervalRef,    \* intervalRef.current: NoInterval or the last interval id
    armed,          \* the interval timers set and not cleared
    encoding,       \* frames captured whose JPEG/base64 encoding is running
    sending,        \* sendRealtimeInput calls that have not settled
    mounted,        \* whether the overlay is mounted
    \* ---- App and SnakeCanvas game state (App.tsx:7-8, SnakeCanvas.tsx:25-29) ----
    gameState,      \* useState gameState: "IDLE", "PLAYING", "GAME_OVER"
    score,          \* useState score, the displayed score
    snakeRef,       \* snakeRef.current: the chain, snakeRef[1] is the head
    foodRef,        \* foodRef.current
    directionRef,   \* directionRef.current, a unit vector scaled by DirScale
    scoreRef,       \* scoreRef.current
    wanderTargetRef, \* wanderTargetRef.current ([has |-> FALSE] is null)
    ticks,          \* display-refresh callbacks run while PLAYING, counted
                    \* from the initial state of the specification
    \* ---- observers of the last step ----
    lastOp,         \* name of the operation or callback that ran last
    again,          \* whether the step before it was the same operation
    lastMsg,        \* the invocations of the message handled last
    effects,        \* what that step sent or notified, in order
    raised,         \* whether that step ended by throwing
    rearm           \* what the liveness timer was when that step re-armed it

adapterVars == <<session, isConnected, phase>>
appVars == <<status, fingerPos, timer, sinceSignal>>
obsVars == <<lastOp, again, lastMsg, effects, raised, rearm>>
gameVars == <<gameState, score, snakeRef, foodRef, directionRef, scoreRef,
              wanderTargetRef, ticks>>
samplerVars == <<intervalRef, armed, encoding, sending, mounted>>
vars == <<session, isConnected, phase, status, fingerPos, timer, sinceSignal,
          isGameActive, intervalRef, armed, encoding, sending, mounted, gameState, score, snakeRef, foodRef, directionRef,
          scoreRef, wanderTargetRef, ticks,
          lastOp, again, lastMsg, effects, raised, rearm>>

----------------------------------------------------------------------------
(* Bounds of the model *)

\* connect() is called at most this many times in a behaviour
MaxSessions == 2
\* a message carries at most this many tool invocations
MaxCalls == 1
\* the liveness window is walked in this many steps of time
StepsPerWindow == 4
\* the game loop runs at most this many ticks in a behaviour
MaxTicks == 4
\* the sampling timer is observed until this many frames are in flight
MaxInFlight == 2

----------------------------------------------------------------------------
(* Values *)

NoSession == 0
NoTimer == -1
NoInterval == 0
\* the ids setInterval hands out, one per activation of the sampler
Intervals == 1..MaxSessions
LIVENESS_MS == 2000
TimeStep == LIVENESS_MS \div StepsPerWindow
\* rearm when the step did not run onFingerMove
NoRearm == [left |-> NoTimer, same |-> FALSE]

\* normalized coordinates are kept in tenths: CoordScale stands for 1.0
CoordScale == 10

Sessions == 1..MaxSessions

\* JavaScript values met where a number is expected
Num(v) == [t |-> "num", v |-> v]
Undefined == [t |-> "undefined", v |-> 0]
NaN == [t |-> "nan", v |-> 0]

\* 1 - v in JavaScript arithmetic: undefined and NaN give NaN
OneMinus(val) == IF val.t = "num" THEN Num(CoordScale - val.v) ELSE NaN

ToolName == "updateFingerPosition"

\* one outbound effect: a notification, an acknowledgement, a frame, a handshake
Eff(k, id, v) == [k |-> k, id |-> id, v |-> v]
StatusEff(text) == Eff("status", "", text)
ErrorEff(text) == Eff("error", "", text)
AckEff(fc) == Eff("ack", fc.id, fc.name)
FrameEff == Eff("frame", "", "image/jpeg")
HandshakeEff == Eff("handshake", "", "")
CloseEff == Eff("close", "", "")
\* console.error / console.warn
LogEff(text) == Eff("log", "", text)

CountKind(es, k) == Cardinality({i \in 1..Len(es) : es[i].k = k})

(* Life cycle of a session object, as the transport drives it:
   "none"        not requested yet
   "handshaking" ai.live.connect called, socket not open, promise pending
   "opened"      onopen has run, the promise is still pending
   "ready"       the promise has resolved with the session
   "closing"     close() was called on it, the close event has not come
   "errored"     onerror has run, the close event has not come
   "closed"      onclose has run
   "failed"      the promise was rejected                                   *)
Phases == {"none", "handshaking", "opened", "ready", "closing", "errored",
           "closed", "failed"}

----------------------------------------------------------------------------
(* Inputs *)

Ids == <<"a", "b", "c">>
\* arguments of an invocation: has = FALSE is an invocation without args
Args(x, y) == [has |-> TRUE, x |-> x, y |-> y]
NoArgs == [has |-> FALSE, x |-> Undefined, y |-> Undefined]
\* what an invocation can be, its id apart
Calls ==
    { [name |-> ToolName, args |-> Args(Num(3), Num(4))],
      [name |-> ToolName, args |-> Args(Undefined, Num(4))],
      [name |-> ToolName, args |-> NoArgs],
      [name |-> "other", args |-> Args(Num(3), Num(4))] }

\* the messages a session can deliver: no toolCall (empty), or 1..MaxCalls
\* invocations, the i-th with id Ids[i]
Messages ==
    UNION { { [i \in 1..n |-> [id |-> Ids[i], name |-> f[i].name, args |-> f[i].args]]
              : f \in [1..n -> Calls] }
            : n \in 0..MaxCalls }

----------------------------------------------------------------------------
(* App: the finger state and its liveness timer (App.tsx:10-21, 48-51) *)

\* an effect that re-runs only when a field of fingerPos changed value
LivenessEffectByValue(old, new, t) ==
    IF new = old THEN t
    ELSE IF new.isActive THEN LIVENESS_MS ELSE NoTimer

\* an effect that arms the timer whether or not the finger is active
LivenessEffectAlways(old, new, t) == LIVENESS_MS

\* an effect that never arms the timer
LivenessEffectNever(old, new, t) == NoTimer

\* the effect of App.tsx:13-21 when fingerPos is set to the object new in
\* place of old while the timer is t: every set makes a new object, so the
\* cleanup clears the timer and a new one is armed when new.isActive
LivenessEffect(old, new, t) == IF new.isActive THEN LIVENESS_MS ELSE NoTimer

\* WebcamOverlay.tsx:62-65: the overlay mirrors x before handing the
\* position to the App
Mirror(pos) == [pos EXCEPT !.x = OneMinus(pos.x)]

\* a handler that keeps the first position of a message
ApplyMovesFirst(fp, moves) ==
    IF moves = <<>> THEN fp ELSE Mirror(Head(moves))

\* App.tsx:48-51 run once for every position of moves, in order
RECURSIVE ApplyMoves(_, _)
ApplyMoves(fp, moves) ==
    IF moves = <<>> THEN fp
    ELSE ApplyMoves(Mirror(Head(moves)), Tail(moves))

\* the App after the overlay forwarded moves (at least one)
AppOnFingerMove(moves) ==
    /\ fingerPos' = ApplyMoves(fingerPos, moves)
    /\ status' = "tracking"
    /\ timer' = LivenessEffect(fingerPos, ApplyMoves(fingerPos, moves), timer)
    /\ sinceSignal' = 0
    /\ rearm' = [left |-> timer, same |-> ApplyMoves(fingerPos, moves) = fingerPos]

----------------------------------------------------------------------------
(* GeminiLiveService *)

ObserveStep(op, msg, eff, r) ==
    /\ lastOp' = op
    /\ again' = (lastOp = op)
    /\ lastMsg' = msg
    /\ effects' = eff
    /\ raised' = r

Observe(op, msg, eff, r) ==
    /\ ObserveStep(op, msg, eff, r)
    /\ rearm' = NoRearm

\* geminiLive.ts:53-71: the loop over message.toolCall.functionCalls.
\* Returns the positions passed to config.onFingerMove, the invocations
\* acknowledged and whether the loop ended by a TypeError (destructuring
\* the args of an invocation that has none).
RECURSIVE HandleCalls(_, _)
HandleCalls(calls, acc) ==
    IF calls = <<>> THEN acc
    ELSE LET fc == Head(calls) IN
         IF fc.name = ToolName
         THEN IF ~fc.args.has
              THEN [acc EXCEPT !.threw = TRUE]
              ELSE HandleCalls(Tail(calls),
                     [acc EXCEPT
                        !.moves = Append(@, [x |-> fc.args.x, y |-> fc.args.y,
                                             isActive |-> TRUE]),
                        !.acks = Append(@, fc)])
         ELSE HandleCalls(Tail(calls), acc)

OnMessageResult(calls) ==
    HandleCalls(calls, [moves |-> <<>>, acks |-> <<>>, threw |-> FALSE])

AckEffects(acks) == [i \in 1..Len(acks) |-> AckEff(acks[i])]

\* geminiLive.ts:41-96: connect() up to the await
Connect ==
    /\ UNCHANGED gameVars
    /\ ~isGameActive
    /\ \E s \in Sessions :
        /\ phase[s] = "none"
        /\ \A r \in Sessions : r < s => phase[r] # "none"
        /\ phase' = [phase EXCEPT ![s] = "handshaking"]
    /\ isGameActive' = TRUE
    /\ status' = "connecting"
    /\ UNCHANGED <<session, isConnected, fingerPos, timer, sinceSignal>>
    /\ Observe("connect", <<>>, <<StatusEff("connecting"), HandshakeEff>>, FALSE)

\* geminiLive.ts:48-51
OnOpen(s) ==
    /\ UNCHANGED samplerVars
    /\ UNCHANGED gameVars
    /\ phase[s] = "handshaking"
    /\ phase' = [phase EXCEPT ![s] = "opened"]
    /\ isConnected' = TRUE
    /\ status' = "connected"
    /\ UNCHANGED <<session, fingerPos, timer, sinceSignal, isGameActive>>
    /\ Observe("onopen", <<>>, <<StatusEff("connected")>>, FALSE)

\* geminiLive.ts:98: the promise resolves and connect() resumes
HandshakeComplete(s) ==
    /\ UNCHANGED samplerVars
    /\ UNCHANGED gameVars
    /\ phase[s] = "opened"
    /\ phase' = [phase EXCEPT ![s] = "ready"]
    /\ session' = s
    /\ UNCHANGED <<isConnected, status, fingerPos, timer, sinceSignal,
                   isGameActive>>
    /\ Observe("handshake-complete", <<>>, <<>>, FALSE)

\* geminiLive.ts:100-103: the promise is rejected and connect() catches
HandshakeFail(s) ==
    /\ UNCHANGED samplerVars
    /\ UNCHANGED gameVars
    /\ phase[s] \in {"handshaking", "opened"}
    /\ phase' = [phase EXCEPT ![s] = "failed"]
    /\ status' = "connect-failed"
    /\ UNCHANGED <<session, isConnected, fingerPos, timer, sinceSignal,
                   isGameActive>>
    /\ Observe("handshake-fail", <<>>,
               <<ErrorEff("message"), StatusEff("connect-failed")>>, FALSE)

\* geminiLive.ts:52-72
OnMessage(s, msg) ==
    /\ UNCHANGED samplerVars
    /\ UNCHANGED gameVars
    /\ phase[s] \in {"ready", "closing"}
    /\ LET r == OnMessageResult(msg) IN
        /\ IF r.moves = <<>>
           THEN UNCHANGED appVars /\ rearm' = NoRearm
           ELSE AppOnFingerMove(r.moves)
        /\ ObserveStep("onmessage", msg, AckEffects(r.acks), r.threw)
    /\ UNCHANGED <<session, isConnected, phase, isGameActive>>

\* geminiLive.ts:73-76
OnClose(s) ==
    /\ UNCHANGED samplerVars
    /\ UNCHANGED gameVars
    /\ phase[s] \in {"ready", "closing", "errored"}
    /\ phase' = [phase EXCEPT ![s] = "closed"]
    /\ isConnected' = FALSE
    /\ status' = "disconnected"
    /\ UNCHANGED <<session, fingerPos, timer, sinceSignal, isGameActive>>
    /\ Observe("onclose", <<>>, <<StatusEff("disconnected")>>, FALSE)

\* geminiLive.ts:77-82
OnError(s) ==
    /\ UNCHANGED samplerVars
    /\ UNCHANGED gameVars
    /\ phase[s] \in {"handshaking", "opened", "ready", "closing"}
    /\ phase' = [phase EXCEPT ![s] = "errored"]
    /\ isConnected' = FALSE
    /\ status' = "error"
    /\ UNCHANGED <<session, fingerPos, timer, sinceSignal, isGameActive>>
    /\ Observe("onerror", <<>>, <<LogEff("e"), ErrorEff("connection"), StatusEff("error")>>, FALSE)

\* sendFrame that tests the handle only, not isConnected
SendFrameGuardNoFlag(sess, conn) == sess # NoSession

\* geminiLive.ts:107: the guard of sendFrame
SendFrameGuard(sess, conn) == sess # NoSession /\ conn

\* geminiLive.ts:106-119; sendThrows: sendRealtimeInput throws or rejects
SendFrame ==
    /\ UNCHANGED gameVars
    /\ \E sendThrows \in BOOLEAN :
        /\ sendThrows => SendFrameGuard(session, isConnected)
        /\ Observe("sendFrame", <<>>,
                   IF ~SendFrameGuard(session, isConnected) THEN <<>>
                   ELSE IF sendThrows THEN <<LogEff("Error sending frame")>>
                   ELSE <<FrameEff>>,
                   FALSE)
    /\ UNCHANGED <<session, isConnected, phase, status, fingerPos, timer,
                   sinceSignal, isGameActive>>

\* disconnect() without the try/catch around close()
DisconnectNoCatch(sess, conn, closeThrows) ==
    IF sess # NoSession /\ closeThrows
    THEN [session |-> sess, isConnected |-> conn, raised |-> TRUE,
          effects |-> <<>>]
    ELSE [session |-> NoSession, isConnected |-> FALSE, raised |-> FALSE,
          effects |-> IF sess = NoSession THEN <<StatusEff("disconnected")>>
                      ELSE <<CloseEff, StatusEff("disconnected")>>]

\* geminiLive.ts:125-135: the fields and outcome of disconnect() when the
\* handle is sess and close() throws or not
DisconnectResult(sess, conn, closeThrows) ==
    [session |-> NoSession, isConnected |-> FALSE, raised |-> FALSE,
     effects |-> IF sess = NoSession THEN <<StatusEff("disconnected")>>
                 ELSE IF closeThrows
                 THEN <<LogEff("Could not close session explicitly"),
                        StatusEff("disconnected")>>
                 ELSE <<CloseEff, StatusEff("disconnected")>>]

\* geminiLive.ts:121-136
Disconnect ==
    /\ UNCHANGED gameVars
    /\ \E closeThrows \in BOOLEAN :
        /\ closeThrows => session # NoSession
        /\ LET r == DisconnectResult(session, isConnected, closeThrows) IN
            /\ session' = r.session
            /\ isConnected' = r.isConnected
            /\ status' = IF r.raised THEN status ELSE "disconnected"
            /\ Observe("disconnect", <<>>, r.effects, r.raised)
        /\ phase' = IF session # NoSession /\ ~closeThrows /\ phase[session] = "ready"
                    THEN [phase EXCEPT ![session] = "closing"]
                    ELSE phase
    /\ isGameActive' = FALSE
    /\ UNCHANGED <<fingerPos, timer, sinceSignal>>

----------------------------------------------------------------------------
(* WebcamOverlay: the frame sampler (WebcamOverlay.tsx:78-110) *)

\* no interval was ever set (WebcamOverlay.tsx:22)
SamplerIdle ==
    /\ intervalRef = NoInterval
    /\ armed = {}
    /\ encoding = 0
    /\ sending = 0
    /\ mounted = TRUE

\* the first interval is armed and no frame is in flight
SamplerRunning ==
    /\ intervalRef = 1
    /\ armed = {1}
    /\ encoding = 0
    /\ sending = 0
    /\ mounted = TRUE

\* a clearInterval that leaves the timer armed
ClearIntervalNone(ref, timers) == timers

\* WebcamOverlay.tsx:73 and :108: if (intervalRef.current) clearInterval(...)
ClearInterval(ref, timers) ==
    IF ref # NoInterval THEN timers \ {ref} ELSE timers

\* WebcamOverlay.tsx:80-104: the prop became true: connect() and setInterval
EffectActive ==
    /\ mounted
    /\ Connect
    /\ intervalRef' = intervalRef + 1
    /\ armed' = armed \cup {intervalRef + 1}
    /\ UNCHANGED <<encoding, sending, mounted>>

\* WebcamOverlay.tsx:106-109: the effect runs with the prop false, at mount
\* or when the prop became false: disconnect() and clearInterval
EffectInactive ==
    /\ mounted
    /\ isGameActive \/ lastOp = "init"
    /\ Disconnect
    /\ armed' = ClearInterval(intervalRef, armed)
    /\ UNCHANGED <<intervalRef, encoding, sending, mounted>>

\* WebcamOverlay.tsx:71-74: the cleanup of the mount effect, at unmount
Unmount ==
    /\ mounted
    /\ mounted' = FALSE
    /\ Disconnect
    /\ armed' = ClearInterval(intervalRef, armed)
    /\ UNCHANGED <<intervalRef, encoding, sending>>

\* WebcamOverlay.tsx:84-103: the interval callback, the video having data:
\* the frame is drawn and canvas.toBlob starts encoding it
IntervalFires(id) ==
    /\ id \in armed
    /\ encoding + sending < MaxInFlight
    /\ encoding' = encoding + 1
    /\ UNCHANGED <<session, isConnected, phase, status, fingerPos, timer,
                   sinceSignal, isGameActive, intervalRef, armed, sending,
                   mounted>>
    /\ UNCHANGED gameVars
    /\ Observe("interval", <<>>, <<>>, FALSE)

\* WebcamOverlay.tsx:97-101: the blob is ready and converted, sendFrame is
\* called; a frame handed to the transport stays in flight until it settles
EncodeDone ==
    /\ encoding > 0
    /\ encoding' = encoding - 1
    /\ SendFrame
    /\ sending' = sending + CountKind(effects', "frame")
    /\ UNCHANGED <<intervalRef, armed, mounted>>

\* geminiLive.ts:109: the awaited sendRealtimeInput settles
SendDone ==
    /\ sending > 0
    /\ sending' = sending - 1
    /\ UNCHANGED <<session, isConnected, phase, status, fingerPos, timer,
                   sinceSignal, isGameActive, intervalRef, armed, encoding,
                   mounted>>
    /\ UNCHANGED gameVars
    /\ Observe("send-done", <<>>, <<>>, FALSE)

----------------------------------------------------------------------------
(* Time and the liveness timer *)

Min(a, b) == IF a < b THEN a ELSE b

\* d ms pass with no callback running
TimePasses(d) ==
    /\ UNCHANGED samplerVars
    /\ UNCHANGED gameVars
    /\ timer # NoTimer
    /\ d > 0
    /\ d <= timer
    /\ timer' = timer - d
    /\ sinceSignal' = Min(sinceSignal + d, LIVENESS_MS)
    /\ UNCHANGED <<session, isConnected, phase, status, fingerPos, isGameActive>>
    /\ Observe("time", <<>>, <<>>, FALSE)

\* App.tsx:15-18: the timeout callback, then the effect of the new fingerPos
TimerFires ==
    /\ UNCHANGED samplerVars
    /\ UNCHANGED gameVars
    /\ timer = 0
    /\ fingerPos' = [fingerPos EXCEPT !.isActive = FALSE]
    /\ status' = "lost"
    /\ timer' = LivenessEffect(fingerPos, [fingerPos EXCEPT !.isActive = FALSE],
                               NoTimer)
    /\ UNCHANGED <<session, isConnected, phase, sinceSignal, isGameActive>>
    /\ Observe("timeout", <<>>, <<StatusEff("lost")>>, FALSE)

----------------------------------------------------------------------------
(* SnakeCanvas: numbers *)

(* Canvas coordinates are fixed-point: PosScale units are one pixel.  A
   direction is a vector scaled by DirScale (DirScale is length 1).  The
   JavaScript code computes in floating point; here every division rounds
   to the nearest unit and the square root is the integer square root.     *)
PosScale == 100
DirScale == 1000

\* canvas.width and canvas.height (SnakeCanvas.tsx:219-220), in pixels
CanvasWidth == 200
CanvasHeight == 100
Width == CanvasWidth * PosScale
Height == CanvasHeight * PosScale

GRID_SIZE == 20
SNAKE_SPEED == 3
\* TURN_RATE = 0.15
TurnRateNum == 15
TurnRateDen == 100
\* SnakeCanvas.tsx:36, :80, :118, :138, :139, :143
InitialLength == 10
Deadband == 10
SegmentSpacing == 10
PickupRadius == 20
ScorePerFood == 10
GrowBy == 5
\* SnakeCanvas.tsx:47-48: food keeps this margin from the edges
FoodMargin == 20

Sq(a) == a * a
\* a / b rounded to the nearest integer, b > 0
RDiv(a, b) == (2 * a + b) \div (2 * b)

RECURSIVE IsqrtIter(_, _)
IsqrtIter(n, x) ==
    LET y == (x + n \div x) \div 2 IN
    IF y >= x THEN x ELSE IsqrtIter(n, y)
\* Math.sqrt, to the unit below
Isqrt(n) == IF n = 0 THEN 0 ELSE IsqrtIter(n, n)

Pt(x, y) == [x |-> x, y |-> y]
Px(x, y) == Pt(x * PosScale, y * PosScale)

\* where Math.random() can put the food (SnakeCanvas.tsx:45-50): inside the
\* margin; the first is within the pickup radius of the start position
FoodPoints == {Px(110, 50), Px(40, 80)}
\* where Math.random() can put the wander target (SnakeCanvas.tsx:66-69)
WanderPoints == {Px(180, 90), Px(10, 50)}
NoWander == [has |-> FALSE, x |-> 0, y |-> 0]

\* Date.now() at tick t (SnakeCanvas.tsx:97)
EpochMs == 1000000
FrameMs == 16
DateNow(t) == EpochMs + t * FrameMs

----------------------------------------------------------------------------
(* SnakeCanvas: initGame and update *)

\* SnakeCanvas.tsx:33-38
InitialSnake ==
    [i \in 1..InitialLength |->
        [x |-> Width \div 2 - (i - 1) * ((GRID_SIZE \div 2) * PosScale),
         y |-> Height \div 2,
         id |-> i - 1]]

\* SnakeCanvas.tsx:59-73: the target of this tick; nan when a coordinate
\* of the tracked signal is not a number
ResolveTarget(fp, wander) ==
    IF fp.isActive
    THEN IF fp.x.t = "num" /\ fp.y.t = "num"
         THEN [nan |-> FALSE,
               x |-> (fp.x.v * Width) \div CoordScale,
               y |-> (fp.y.v * Height) \div CoordScale]
         ELSE [nan |-> TRUE, x |-> 0, y |-> 0]
    ELSE [nan |-> FALSE, x |-> wander.x, y |-> wander.y]

\* SnakeCanvas.tsx:65-70: the wander target after this tick's resolution
ResolveWander(fp, wander, resample, wp) ==
    IF ~fp.isActive /\ (~wander.has \/ resample)
    THEN [has |-> TRUE, x |-> wp.x, y |-> wp.y]
    ELSE wander

\* a test that lets the head turn whenever it is not exactly on the target
OutsideDeadbandZero(head, tg) ==
    /\ ~tg.nan
    /\ Sq(tg.x - head.x) + Sq(tg.y - head.y) > 0

\* SnakeCanvas.tsx:80: dist > 10, false for NaN
OutsideDeadband(head, tg) ==
    /\ ~tg.nan
    /\ Sq(tg.x - head.x) + Sq(tg.y - head.y) > Sq(Deadband * PosScale)

\* SnakeCanvas.tsx:76-91: the direction after the smooth turn
Turn(head, dir, tg) ==
    LET dx == tg.x - head.x
        dy == tg.y - head.y
        dist == Isqrt(Sq(dx) + Sq(dy))
        desiredX == RDiv(dx * DirScale, dist)
        desiredY == RDiv(dy * DirScale, dist)
        bx == dir.x + RDiv((desiredX - dir.x) * TurnRateNum, TurnRateDen)
        by == dir.y + RDiv((desiredY - dir.y) * TurnRateNum, TurnRateDen)
        dirLen == Isqrt(Sq(bx) + Sq(by))
    IN  Pt(RDiv(bx * DirScale, dirLen), RDiv(by * DirScale, dirLen))

\* SnakeCanvas.tsx:101-104
Wrap(v, bound) ==
    LET low == IF v < 0 THEN bound ELSE v
    IN  IF low > bound THEN 0 ELSE low

\* SnakeCanvas.tsx:94-104
MoveHead(head, dir, t) ==
    [x |-> Wrap(head.x + RDiv(dir.x * SNAKE_SPEED * PosScale, DirScale), Width),
     y |-> Wrap(head.y + RDiv(dir.y * SNAKE_SPEED * PosScale, DirScale), Height),
     id |-> DateNow(t)]

\* a segment that closes only half of the excess distance
FollowHalf(prev, curr) ==
    LET segDx == prev.x - curr.x
        segDy == prev.y - curr.y
        segDist == Isqrt(Sq(segDx) + Sq(segDy))
        spacing == SegmentSpacing * PosScale
    IN  IF Sq(segDx) + Sq(segDy) > Sq(spacing)
        THEN [x |-> curr.x + RDiv(segDx * (segDist - spacing), 2 * segDist),
              y |-> curr.y + RDiv(segDy * (segDist - spacing), 2 * segDist),
              id |-> curr.id]
        ELSE curr

\* SnakeCanvas.tsx:114-129: segment curr follows prev, the one ahead of it
Follow(prev, curr) ==
    LET segDx == prev.x - curr.x
        segDy == prev.y - curr.y
        segDist == Isqrt(Sq(segDx) + Sq(segDy))
        spacing == SegmentSpacing * PosScale
    IN  IF Sq(segDx) + Sq(segDy) > Sq(spacing)
        THEN [x |-> curr.x + RDiv(segDx * (segDist - spacing), segDist),
              y |-> curr.y + RDiv(segDy * (segDist - spacing), segDist),
              id |-> curr.id]
        ELSE curr

\* SnakeCanvas.tsx:110-131: newSnake, built from the head outward
RECURSIVE Relax(_, _, _)
Relax(newSnake, old, i) ==
    IF i > Len(old) THEN newSnake
    ELSE Relax(Append(newSnake, Follow(newSnake[i - 1], old[i])), old, i + 1)

\* a steering step that moves the head in the deadband too, Direction held
SteerAlways(chain, dir, tg, t) ==
    LET nd == IF OutsideDeadband(chain[1], tg) THEN Turn(chain[1], dir, tg)
              ELSE dir
    IN  [snake |-> Relax(<<MoveHead(chain[1], nd, t)>>, chain, 2), dir |-> nd]

\* SnakeCanvas.tsx:80-133: the chain and the direction after the steering
\* step of tick t
Steer(chain, dir, tg, t) ==
    IF OutsideDeadband(chain[1], tg)
    THEN LET nd == Turn(chain[1], dir, tg) IN
         [snake |-> Relax(<<MoveHead(chain[1], nd, t)>>, chain, 2), dir |-> nd]
    ELSE [snake |-> chain, dir |-> dir]

\* SnakeCanvas.tsx:136-138: the test is made on head, the head of the chain
\* as it was when the tick began (SnakeCanvas.tsx:55)
FoodHit(head, food) ==
    Sq(head.x - food.x) + Sq(head.y - food.y) < Sq(PickupRadius * PosScale)

\* a growth that appends one segment too few
GrowShort(chain) ==
    chain \o [k \in 1..(GrowBy - 1) |-> chain[Len(chain)]]

\* SnakeCanvas.tsx:142-145
Grow(chain) ==
    chain \o [k \in 1..GrowBy |-> chain[Len(chain)]]

\* SnakeCanvas.tsx:52-149 run once while PLAYING: one display refresh
Tick ==
    /\ UNCHANGED samplerVars
    /\ gameState = "PLAYING"
    /\ ticks < MaxTicks
    /\ \E resample \in BOOLEAN, wp \in WanderPoints, fd \in FoodPoints :
        LET head == snakeRef[1]
            wander == ResolveWander(fingerPos, wanderTargetRef, resample, wp)
            tg == ResolveTarget(fingerPos, wander)
            st == Steer(snakeRef, directionRef, tg, ticks + 1)
            hit == FoodHit(head, foodRef)
        IN  /\ fingerPos.isActive => ~resample
            /\ wanderTargetRef' = wander
            /\ directionRef' = st.dir
            /\ snakeRef' = IF hit THEN Grow(st.snake) ELSE st.snake
            /\ scoreRef' = IF hit THEN scoreRef + ScorePerFood ELSE scoreRef
            /\ score' = IF hit THEN scoreRef + ScorePerFood ELSE score
            /\ foodRef' = IF hit THEN fd ELSE foodRef
            /\ Observe("tick", <<>>,
                       IF hit THEN <<Eff("score", "", ""), Eff("spawnFood", "", "")>>
                       ELSE <<>>,
                       FALSE)
    /\ ticks' = ticks + 1
    /\ UNCHANGED <<gameState, session, isConnected, phase, status, fingerPos,
                   timer, sinceSignal, isGameActive>>

\* the state of the game once SnakeCanvas has mounted (SnakeCanvas.tsx:239-241
\* runs initGame) with the food at fd
GameMounted(fd) ==
    /\ gameState = "IDLE"
    /\ score = 0
    /\ snakeRef = InitialSnake
    /\ foodRef = fd
    /\ directionRef = Pt(DirScale, 0)
    /\ scoreRef = 0
    /\ wanderTargetRef = NoWander
    /\ ticks = 0

\* the same after handleStart (App.tsx:23-27)
GameStarted(fd) ==
    /\ gameState = "PLAYING"
    /\ score = 0
    /\ snakeRef = InitialSnake
    /\ foodRef = fd
    /\ directionRef = Pt(DirScale, 0)
    /\ scoreRef = 0
    /\ wanderTargetRef = NoWander
    /\ ticks = 0

----------------------------------------------------------------------------
(* The adapter under its caller and its transport *)

Init ==
    /\ session = NoSession
    /\ isConnected = FALSE
    /\ phase = [s \in Sessions |-> "none"]
    /\ status = "waiting"
    /\ fingerPos = [x |-> Num(5), y |-> Num(5), isActive |-> FALSE]
    /\ timer = NoTimer
    /\ sinceSignal = 0
    /\ isGameActive = FALSE
    /\ GameMounted(Px(110, 50))
    /\ SamplerIdle
    /\ lastOp = "init"
    /\ again = FALSE
    /\ lastMsg = <<>>
    /\ effects = <<>>
    /\ raised = FALSE
    /\ rearm = NoRearm

\* the caller of the adapter: connect() and disconnect() in turn, as the
\* effect of WebcamOverlay.tsx:79-110 calls them when its isGameActive prop
\* changes, and sendFrame() at any time
CallConnect == Connect /\ UNCHANGED samplerVars
CallDisconnect == Disconnect /\ UNCHANGED samplerVars
CallSendFrame == SendFrame /\ UNCHANGED samplerVars

Next ==
    \/ CallConnect
    \/ CallDisconnect
    \/ CallSendFrame
    \/ \E s \in Sessions : OnOpen(s)
    \/ \E s \in Sessions : HandshakeComplete(s)
    \/ \E s \in Sessions : HandshakeFail(s)
    \/ \E s \in Sessions : \E msg \in Messages : OnMessage(s, msg)
    \/ \E s \in Sessions : OnClose(s)
    \/ \E s \in Sessions : OnError(s)
    \/ TimePasses(timer)
    \/ TimerFires

Spec == Init /\ [][Next]_vars

----------------------------------------------------------------------------
(* The liveness window, with the first session open and time in steps *)

\* the state after connect(), onopen and the resolution of the handshake
InitLive ==
    /\ session = 1
    /\ isConnected = TRUE
    /\ phase = [s \in Sessions |-> IF s = 1 THEN "ready" ELSE "none"]
    /\ status = "connected"
    /\ fingerPos = [x |-> Num(5), y |-> Num(5), isActive |-> FALSE]
    /\ timer = NoTimer
    /\ sinceSignal = 0
    /\ isGameActive = TRUE
    /\ GameMounted(Px(110, 50))
    /\ SamplerRunning
    /\ lastOp = "handshake-complete"
    /\ again = FALSE
    /\ lastMsg = <<>>
    /\ effects = <<>>
    /\ raised = FALSE
    /\ rearm = NoRearm

NextLive ==
    \/ \E msg \in Messages : OnMessage(1, msg)
    \/ TimePasses(Min(TimeStep, timer))
    \/ TimerFires

SpecLiveness == InitLive /\ [][NextLive]_vars

----------------------------------------------------------------------------
(* The game loop of a started game whose session is open *)

\* the messages of SpecGame: one invocation of the tracking tool, with
\* numeric coordinates or with x missing
SignalMessages ==
    { <<[id |-> Ids[1], name |-> ToolName, args |-> a]>> :
        a \in {Args(Num(3), Num(4)), Args(Undefined, Num(4))} }

\* the state after handleStart (App.tsx:23-27), connect(), onopen and the
\* resolution of the handshake, before the first display refresh
InitGame ==
    /\ session = 1
    /\ isConnected = TRUE
    /\ phase = [s \in Sessions |-> IF s = 1 THEN "ready" ELSE "none"]
    /\ status = "connected"
    /\ fingerPos = [x |-> Num(5), y |-> Num(5), isActive |-> FALSE]
    /\ timer = NoTimer
    /\ sinceSignal = 0
    /\ isGameActive = TRUE
    /\ \E fd \in FoodPoints :
          GameStarted(fd)
    /\ SamplerRunning
    /\ lastOp = "handshake-complete"
    /\ again = FALSE
    /\ lastMsg = <<>>
    /\ effects = <<>>
    /\ raised = FALSE
    /\ rearm = NoRearm

NextGame ==
    \/ Tick
    \/ \E msg \in SignalMessages : OnMessage(1, msg)
    \/ TimePasses(timer)
    \/ TimerFires

SpecGame == InitGame /\ [][NextGame]_vars

----------------------------------------------------------------------------
(* The game loop on two courses: from the start position with the food just
   ahead, and at the right edge after a straight run toward a signal there *)

\* ticks of the straight run from the centre to the deadband of a target on
\* the right edge (SnakeCanvas.tsx:80, 95)
CruiseTicks == (CanvasWidth \div 2 - Deadband) \div SNAKE_SPEED

\* the chain after k ticks toward a target straight ahead: the initial spacing
\* is the segment spacing, so every segment advances with the head
\* (SnakeCanvas.tsx:94-131); the head carries the Date.now() of its tick
Cruise(k) ==
    [i \in 1..InitialLength |->
        [x |-> InitialSnake[i].x + k * SNAKE_SPEED * PosScale,
         y |-> InitialSnake[i].y,
         id |-> IF i = 1 THEN DateNow(0) ELSE InitialSnake[i].id]]

\* a food position just outside the pickup radius of the start position
FoodAhead == Px(122, 50)

\* the messages of SpecCourse: one invocation of the tracking tool, pointing
\* at the centre of the canvas or (mirrored) at its bottom right corner
CourseMessages ==
    { <<[id |-> Ids[1], name |-> ToolName, args |-> a]>> :
        a \in {Args(Num(5), Num(5)), Args(Num(0), Num(CoordScale))} }

\* the game just started with the food ahead
CourseStart ==
    /\ fingerPos = [x |-> Num(5), y |-> Num(5), isActive |-> FALSE]
    /\ timer = NoTimer
    /\ sinceSignal = 0
    /\ GameStarted(FoodAhead)
    /\ lastOp = "handshake-complete"

\* a signal on the right edge arrived at the start and the chain has run
\* straight to the deadband of that target, one TimeStep of time later
CourseAtEdge ==
    /\ fingerPos = [x |-> Num(CoordScale), y |-> Num(5), isActive |-> TRUE]
    /\ timer = LIVENESS_MS - TimeStep
    /\ sinceSignal = TimeStep
    /\ gameState = "PLAYING"
    /\ score = 0
    /\ snakeRef = Cruise(CruiseTicks)
    /\ foodRef = Px(40, 80)
    /\ directionRef = Pt(DirScale, 0)
    /\ scoreRef = 0
    /\ wanderTargetRef = NoWander
    /\ ticks = 0
    /\ lastOp = "tick"

InitCourse ==
    /\ session = 1
    /\ isConnected = TRUE
    /\ phase = [s \in Sessions |-> IF s = 1 THEN "ready" ELSE "none"]
    /\ status = "connected"
    /\ isGameActive = TRUE
    /\ CourseStart \/ CourseAtEdge
    /\ SamplerRunning
    /\ again = FALSE
    /\ lastMsg = <<>>
    /\ effects = <<>>
    /\ raised = FALSE
    /\ rearm = NoRearm

NextCourse ==
    \/ Tick
    \/ \E msg \in CourseMessages : OnMessage(1, msg)
    \/ TimePasses(timer)
    \/ TimerFires

SpecCourse == InitCourse /\ [][NextCourse]_vars

----------------------------------------------------------------------------
(* The application shell: start and game-over transitions (App.tsx:23-31)
   with the components that follow gameState *)

\* SnakeCanvas.tsx:239 and :253: the two places that call initGame, both
\* only for an empty chain
InitialSetup(chain) == Len(chain) = 0
ResetTrigger(gs, chain) == gs = "PLAYING" /\ Len(chain) = 0

\* App.tsx:23-27, the button of the start and of the game-over screen
\* (App.tsx:76, 87, 97, 103), and the effects of SnakeCanvas that follow the
\* new gameState (SnakeCanvas.tsx:213-256).  A start needs a session that
\* connect() can still create.
HandleStart ==
    /\ gameState \in {"IDLE", "GAME_OVER"}
    /\ \E s \in Sessions : phase[s] = "none"
    /\ gameState' = "PLAYING"
    /\ status' = "connecting-vision"
    /\ \E fd \in FoodPoints :
        IF InitialSetup(snakeRef) \/ ResetTrigger("PLAYING", snakeRef)
        THEN /\ snakeRef' = InitialSnake
             /\ directionRef' = Pt(DirScale, 0)
             /\ scoreRef' = 0
             /\ score' = 0
             /\ foodRef' = fd
        ELSE /\ score' = 0
             /\ UNCHANGED <<snakeRef, directionRef, scoreRef, foodRef>>
    /\ UNCHANGED <<wanderTargetRef, ticks>>
    /\ UNCHANGED <<session, isConnected, phase, fingerPos, timer, sinceSignal,
                   isGameActive>>
    /\ UNCHANGED samplerVars
    /\ Observe("start", <<>>, <<StatusEff("connecting-vision")>>, FALSE)

\* App.tsx:29-31, the onGameOver prop of SnakeCanvas (App.tsx:42), for a
\* game that is being played
HandleGameOver ==
    /\ gameState = "PLAYING"
    /\ gameState' = "GAME_OVER"
    /\ UNCHANGED <<score, snakeRef, foodRef, directionRef, scoreRef,
                   wanderTargetRef, ticks>>
    /\ UNCHANGED <<session, isConnected, phase, status, fingerPos, timer,
                   sinceSignal, isGameActive>>
    /\ UNCHANGED samplerVars
    /\ Observe("game-over", <<>>, <<>>, FALSE)

\* App.tsx:47 and WebcamOverlay.tsx:79-110: the overlay's effect once its
\* prop isGameActive = (gameState === PLAYING) has changed
OverlayActivates == gameState = "PLAYING" /\ EffectActive
OverlayDeactivates == gameState # "PLAYING" /\ isGameActive /\ EffectInactive

NextSession ==
    \/ HandleStart
    \/ HandleGameOver
    \/ OverlayActivates
    \/ OverlayDeactivates
    \/ Tick
    \/ \E s \in Sessions : OnOpen(s)
    \/ \E s \in Sessions : HandshakeComplete(s)

SpecSession == Init /\ [][NextSession]_vars

----------------------------------------------------------------------------
(* A started game whose session fails, closes or is disconnected *)

\* the state after handleStart (App.tsx:23-27) and the overlay's effect
\* (WebcamOverlay.tsx:80-104): the first handshake is pending
InitResilience ==
    /\ session = NoSession
    /\ isConnected = FALSE
    /\ phase = [s \in Sessions |-> IF s = 1 THEN "handshaking" ELSE "none"]
    /\ status = "connecting"
    /\ fingerPos = [x |-> Num(5), y |-> Num(5), isActive |-> FALSE]
    /\ timer = NoTimer
    /\ sinceSignal = 0
    /\ isGameActive = TRUE
    /\ GameStarted(Px(40, 80))
    /\ SamplerRunning
    /\ lastOp = "connect"
    /\ again = FALSE
    /\ lastMsg = <<>>
    /\ effects = <<StatusEff("connecting"), HandshakeEff>>
    /\ raised = FALSE
    /\ rearm = NoRearm

\* a message with one invocation of the tracking tool
TrackedMessage ==
    <<[id |-> Ids[1], name |-> ToolName, args |-> Args(Num(3), Num(4))]>>

NextResilience ==
    \/ Tick
    \/ OnOpen(1)
    \/ HandshakeComplete(1)
    \/ HandshakeFail(1)
    \/ OnMessage(1, TrackedMessage)
    \/ OnClose(1)
    \/ OnError(1)
    \/ CallDisconnect
    \/ TimePasses(timer)
    \/ TimerFires

\* a timer set with setTimeout runs out and its callback runs (App.tsx:15-18)
TimerFairness == WF_vars(TimePasses(timer)) /\ WF_vars(TimerFires)

SpecResilience == InitResilience /\ [][NextResilience]_vars /\ TimerFairness

----------------------------------------------------------------------------
(* The game loop under messages that carry two invocations *)

\* the coordinates the invocations of SpecTracking report
PairCoords == {Args(Num(3), Num(4)), Args(Num(2), Num(6))}

\* messages with two invocations of the tracking tool that report different
\* coordinates
PairMessages ==
    { <<[id |-> Ids[1], name |-> ToolName, args |-> p[1]],
        [id |-> Ids[2], name |-> ToolName, args |-> p[2]]>> :
        p \in {q \in PairCoords \X PairCoords : q[1] # q[2]} }

NextTracking ==
    \/ Tick
    \/ \E msg \in PairMessages : OnMessage(1, msg)
    \/ TimePasses(timer)
    \/ TimerFires

SpecTracking == InitGame /\ [][NextTracking]_vars

----------------------------------------------------------------------------
(* The frame sampler under a toggling isGameActive prop *)

NextSampler ==
    \/ EffectActive
    \/ EffectInactive
    \/ \E s \in Sessions : OnOpen(s)
    \/ \E s \in Sessions : HandshakeComplete(s)
    \/ \E id \in Intervals : IntervalFires(id)
    \/ EncodeDone
    \/ SendDone

SpecSampler == Init /\ [][NextSampler]_vars

----------------------------------------------------------------------------
(* The overlay from mount to unmount under a toggling isGameActive prop *)

NextOverlay ==
    \/ EffectActive
    \/ EffectInactive
    \/ Unmount
    \/ \E s \in Sessions : OnOpen(s)
    \/ \E s \in Sessions : HandshakeComplete(s)
    \/ \E id \in Intervals : IntervalFires(id)
    \/ EncodeDone
    \/ SendDone

SpecOverlay == Init /\ [][NextOverlay]_vars

----------------------------------------------------------------------------
(* The connection state of the adapter, read from its fields *)

\* Open: a session handle is held and it was reported open (geminiLive.ts:107)
AdapterOpen == session # NoSession /\ isConnected
\* Closed as disconnect() leaves it (geminiLive.ts:132-134)
AdapterClosed == session = NoSession /\ ~isConnected

SessionCallbacks == {"onopen", "onmessage", "onclose", "onerror",
                     "handshake-complete", "handshake-fail"}

\* an invocation of the tracking tool whose arguments lack a numeric x or y
Malformed(fc) ==
    /\ fc.name = ToolName
    /\ (~fc.args.has \/ fc.args.x.t # "num" \/ fc.args.y.t # "num")

\* the acknowledgements the protocol asks for: one per invocation, in order
ExpectedAcks(calls) == [i \in 1..Len(calls) |-> AckEff(calls[i])]

----------------------------------------------------------------------------
(* Claims about the adapter, checked under Spec *)

\* C1: handling a message of N tool invocations, whatever their names or
\* arguments, sends exactly N acknowledgements, one per invocation with that
\* invocation's id and name (as the claim states it).
C1_EveryInvocationAcknowledged ==
    lastOp = "onmessage" => effects = ExpectedAcks(lastMsg)

\* C2: every call of disconnect() returns without raising, leaves the adapter
\* Closed (not connected, no handle) and emits exactly one status
\* notification, "disconnected".
C2_DisconnectAlwaysCloses ==
    lastOp = "disconnect" =>
        /\ ~raised
        /\ AdapterClosed
        /\ CountKind(effects, "status") = 1
        /\ status = "disconnected"

\* C2 witness: a disconnect() that directly follows another disconnect(),
\* a session being left in phase "ready" because its close() threw.
C2_Witness_SecondDisconnect ==
    lastOp = "disconnect" /\ again /\ \E s \in Sessions : phase[s] = "ready"

\* C3: between the return of disconnect() and the next connect(), no step
\* leaves the adapter other than Closed, no session callback changes the
\* tracked signal and no frame is transmitted (as the claim states it).
C3_NoStaleCallbackEffect ==
    [][(~isGameActive /\ ~isGameActive') =>
          /\ session' = NoSession
          /\ isConnected' = FALSE
          /\ (lastOp' \in SessionCallbacks => fingerPos' = fingerPos)
          /\ (lastOp' = "sendFrame" => CountKind(effects', "frame") = 0)]_vars

\* C4: a sendFrame call transmits at most one frame and only when the adapter
\* is Open; when it is not Open the call has no effect at all; it never
\* raises, also when the transport's send fails, and it changes neither the
\* handle nor the connected flag nor any session.
C4_SendFrameOnlyWhenOpen ==
    [][lastOp' = "sendFrame" =>
          /\ ~raised'
          /\ session' = session /\ isConnected' = isConnected /\ phase' = phase
          /\ (~AdapterOpen => effects' = <<>>)
          /\ (AdapterOpen => effects' \in {<<FrameEff>>,
                                           <<LogEff("Error sending frame")>>})]_vars

\* C4 witness: sendFrame was called while a handshake was pending and the
\* adapter was not Open, and nothing was transmitted.
C4_Witness_DroppedWhileConnecting ==
    /\ lastOp = "sendFrame"
    /\ ~AdapterOpen
    /\ \E s \in Sessions : phase[s] = "handshaking"
    /\ effects = <<>>

\* C5: a handshake failure or a transport error emits one error and one
\* status notification and leaves the adapter not Open, and a handshake is
\* started by connect() only (as the claim states it).
C5_FailureIsTerminal ==
    /\ lastOp \in {"handshake-fail", "onerror"} =>
          /\ CountKind(effects, "error") = 1
          /\ CountKind(effects, "status") = 1
          /\ ~AdapterOpen
    /\ CountKind(effects, "handshake") > 0 => lastOp = "connect"

\* C9: a message whose invocations all lack a numeric x or y is handled
\* without throwing, leaves the tracked signal as it was, and every one of
\* its invocations is acknowledged once with its id (as the claim states it).
C9_MalformedIgnoredButAcknowledged ==
    [][(/\ lastOp' = "onmessage"
        /\ lastMsg' # <<>>
        /\ \A i \in 1..Len(lastMsg') : Malformed(lastMsg'[i])) =>
          /\ ~raised'
          /\ fingerPos' = fingerPos
          /\ effects' = ExpectedAcks(lastMsg')]_vars

----------------------------------------------------------------------------
(* Claims about the liveness window, checked under SpecLiveness *)

\* the last step was a message that carried a tracked signal to the App
SignalArrived == lastOp = "onmessage" /\ OnMessageResult(lastMsg).moves # <<>>

\* C6: when 2000 ms have passed since the last tracked signal the next step
\* that is not a message turns the source from tracked to wander and
\* signals the loss; the loss is signalled only by such a turn; and the
\* source turns back to tracked only by a new signal.
C6_LossSignalledOnce ==
    [][/\ (fingerPos.isActive /\ sinceSignal = LIVENESS_MS /\ lastOp' # "onmessage")
            => (~fingerPos'.isActive /\ status' = "lost"
                /\ effects' = <<StatusEff("lost")>>)
       /\ (CountKind(effects', "status") > 0 /\ status' = "lost")
            => (fingerPos.isActive /\ ~fingerPos'.isActive
                /\ sinceSignal = LIVENESS_MS)
       /\ (~fingerPos.isActive /\ fingerPos'.isActive) => SignalArrived']_vars

\* C6 witness: the timeout has turned the source to wander after 2000 ms
\* without a signal.
C6_Witness_Lost ==
    /\ lastOp = "timeout"
    /\ ~fingerPos.isActive
    /\ sinceSignal = LIVENESS_MS
    /\ timer = NoTimer

\* C7: every tracked signal, also one with the coordinates of the one
\* before, leaves the source tracked with the full 2000 ms window ahead;
\* and the source turns from tracked to wander only by the timeout, 2000 ms
\* after the last signal.
C7_WindowRestartsOnEverySignal ==
    [][/\ SignalArrived' => (fingerPos'.isActive /\ timer' = LIVENESS_MS)
       /\ (fingerPos.isActive /\ ~fingerPos'.isActive)
            => (lastOp' = "timeout" /\ sinceSignal = LIVENESS_MS)]_vars

\* C7 witness: a signal with the coordinates of the previous one arrived
\* when part of the window had passed, and the window is whole again.
C7_Witness_SameCoordinatesRestart ==
    /\ SignalArrived
    /\ rearm.same
    /\ rearm.left # NoTimer
    /\ rearm.left < LIVENESS_MS
    /\ timer = LIVENESS_MS

----------------------------------------------------------------------------
(* Claims about the game loop, checked under SpecGame *)

\* the head, as the tick finds it, is less than 20 pixels from the food
HeadNearFood ==
    Sq(snakeRef[1].x - foodRef.x) + Sq(snakeRef[1].y - foodRef.y)
        < Sq(20 * PosScale)

\* C8: a tick that finds the head within the pickup radius of the food adds
\* exactly 10 to the score and exactly 5 segments to the chain and respawns
\* the food; any other tick leaves score, chain length and food as they
\* were; no step shortens the chain; and in every state the chain length is
\* 10 + 5 * (score / 10).
C8_PickupIsAtomic ==
    /\ [](Len(snakeRef) = 10 + 5 * (scoreRef \div 10))
    /\ [][/\ Len(snakeRef') >= Len(snakeRef)
          /\ lastOp' = "tick" =>
                IF HeadNearFood
                THEN /\ scoreRef' = scoreRef + 10
                     /\ score' = scoreRef'
                     /\ Len(snakeRef') = Len(snakeRef) + 5
                     /\ CountKind(effects', "spawnFood") = 1
                     /\ foodRef' \in FoodPoints
                ELSE /\ scoreRef' = scoreRef
                     /\ Len(snakeRef') = Len(snakeRef)
                     /\ CountKind(effects', "spawnFood") = 0
                     /\ foodRef' = foodRef]_vars

\* C8 witness: a tick has just made the second pickup of the game.
C8_Witness_SecondPickup ==
    /\ lastOp = "tick"
    /\ CountKind(effects, "spawnFood") = 1
    /\ scoreRef = 20
    /\ Len(snakeRef) = 20

----------------------------------------------------------------------------
(* Claims about the frame sampler, checked under SpecSampler *)

\* C10: at most one frame is in flight (being encoded or being sent) at any
\* time (as the claim states it).
C10_AtMostOneFrameInFlight == encoding + sending <= 1

----------------------------------------------------------------------------
(* Claims about steering, checked under SpecCourse *)

\* the head moved in this step: a tick made a new head
HeadMoved == lastOp' = "tick" /\ snakeRef'[1] # snakeRef[1]
\* where this tick puts the head before the boundary policy applies
AdvanceX == snakeRef[1].x + RDiv(directionRef'.x * SNAKE_SPEED * PosScale, DirScale)
AdvanceY == snakeRef[1].y + RDiv(directionRef'.y * SNAKE_SPEED * PosScale, DirScale)
\* v taken modulo bound: bound + e is e and -e is bound - e
Modulo(v, bound) ==
    IF v > bound THEN v - bound ELSE IF v < 0 THEN v + bound ELSE v

\* C11: after a steering step the head is at the advanced position taken
\* modulo the canvas size, overshoot kept, and lies on the canvas (as the
\* claim states it).
C11_WrapKeepsOvershoot ==
    [][HeadMoved =>
          /\ snakeRef'[1].x = Modulo(AdvanceX, Width)
          /\ snakeRef'[1].y = Modulo(AdvanceY, Height)
          /\ snakeRef'[1].x \in 0..Width
          /\ snakeRef'[1].y \in 0..Height]_vars

----------------------------------------------------------------------------
(* Claims about the start of a game, checked under SpecSession *)

\* C12: every step that takes the game to PLAYING leaves the initial chain
\* of 10 segments, the Direction (1, 0) and both scores at 0, and no step of
\* a game that stays PLAYING shortens the chain or lowers the score (as the
\* claim states it).
C12_InitialisedOncePerStart ==
    [][/\ (gameState # "PLAYING" /\ gameState' = "PLAYING") =>
              /\ snakeRef' = InitialSnake
              /\ directionRef' = Pt(DirScale, 0)
              /\ scoreRef' = 0
              /\ score' = 0
       /\ (gameState = "PLAYING" /\ gameState' = "PLAYING") =>
              /\ Len(snakeRef') >= Len(snakeRef)
              /\ scoreRef' >= scoreRef]_vars

----------------------------------------------------------------------------
(* Claims about a failing session, checked under SpecResilience *)

\* what can happen to a session
SessionEvents == {"handshake-fail", "onerror", "onclose", "disconnect"}
\* the session has failed or closed: it delivers no invocation any more
SessionDown == phase[1] \in {"failed", "errored", "closed"}

\* C13: no session event raises; none takes the game out of PLAYING or
\* touches the chain, the Direction, the score or the food, and the chain
\* keeps the head that a tick reads, so that ticks go on; a tracked source
\* has its timer running out 2000 ms after the last signal, and once the
\* session is down the source does become wander; and a tick without a
\* tracked signal has a wander target and turns and moves toward it.
C13_GameLoopSurvivesSession ==
    /\ [](lastOp \in SessionEvents => ~raised)
    /\ [](gameState = "PLAYING" /\ Len(snakeRef) > 0)
    /\ [](fingerPos.isActive => timer = LIVENESS_MS - sinceSignal)
    /\ [][lastOp' \in SessionEvents =>
              /\ gameState' = "PLAYING"
              /\ UNCHANGED <<snakeRef, directionRef, scoreRef, foodRef>>]_vars
    /\ [][(lastOp' = "tick" /\ ~fingerPos.isActive) =>
              /\ wanderTargetRef'.has
              /\ Pt(wanderTargetRef'.x, wanderTargetRef'.y) \in WanderPoints
              /\ LET tg == [nan |-> FALSE, x |-> wanderTargetRef'.x,
                                           y |-> wanderTargetRef'.y]
                 IN  OutsideDeadband(snakeRef[1], tg) =>
                        /\ directionRef' = Turn(snakeRef[1], directionRef, tg)
                        /\ snakeRef'[1] # snakeRef[1]]_vars
    /\ (SessionDown ~> ~fingerPos.isActive)

\* C13 witness: the session failed while a signal was tracked, the loss was
\* signalled afterwards, and a tick has steered toward a wander target.
C13_Witness_WanderAfterError ==
    /\ phase[1] = "errored"
    /\ status = "lost"
    /\ lastOp = "tick"
    /\ ~fingerPos.isActive
    /\ wanderTargetRef.has

----------------------------------------------------------------------------
(* Claims about the body, checked under SpecCourse *)

\* the rounding of the fixed-point arithmetic, in units of 1 / PosScale pixel
SpacingEpsilon == 2
\* the squared distance between segment i and the one ahead of it
GapSq(chain, i) ==
    Sq(chain[i - 1].x - chain[i].x) + Sq(chain[i - 1].y - chain[i].y)

\* C14: in every state, so also after the ticks that follow a growth or the
\* initial layout and after a wrap of the head, every two adjacent segments
\* are at most the target spacing (10) plus epsilon apart.
C14_SpacingBounded ==
    \A i \in 2..Len(snakeRef) :
        GapSq(snakeRef, i) <= Sq(SegmentSpacing * PosScale + SpacingEpsilon)

\* C14 witness: the chain has grown and the head has moved since; the new
\* segments still lie on one another while the pairs ahead are strictly
\* closer than the spacing or at it.
C14_Witness_RelaxingAfterGrowth ==
    /\ lastOp = "tick"
    /\ Len(snakeRef) = InitialLength + GrowBy
    /\ effects = <<>>
    /\ snakeRef[1].id = DateNow(ticks)
    /\ GapSq(snakeRef, Len(snakeRef)) = 0
    /\ \E i \in 2..Len(snakeRef) :
          GapSq(snakeRef, i) >= Sq(SegmentSpacing * PosScale - SpacingEpsilon)

----------------------------------------------------------------------------
(* Claims about the tracked signal, checked under SpecTracking *)

\* every invocation names the tracking tool and has numeric x and y
WellFormed(calls) ==
    \A i \in 1..Len(calls) :
        /\ calls[i].name = ToolName
        /\ ~Malformed(calls[i])

\* the signal scaled by the canvas width and height
ScaledSignal(fp) ==
    [nan |-> FALSE, x |-> (fp.x.v * Width) \div CoordScale,
                    y |-> (fp.y.v * Height) \div CoordScale]

\* C15: after a message with several well-formed invocations the tracked
\* signal is the last invocation's y and its x mirrored (1 - x); and a tick
\* with a tracked signal turns toward that signal scaled by the canvas width
\* and height, or holds the Direction when it is within the deadband of it.
C15_LastSignalWinsMirrored ==
    [][/\ (lastOp' = "onmessage" /\ Len(lastMsg') >= 2 /\ WellFormed(lastMsg')) =>
              LET last == lastMsg'[Len(lastMsg')].args IN
              fingerPos' = [x |-> Num(CoordScale - last.x.v), y |-> last.y,
                            isActive |-> TRUE]
       /\ (lastOp' = "tick" /\ fingerPos.isActive) =>
              directionRef' =
                  IF OutsideDeadband(snakeRef[1], ScaledSignal(fingerPos))
                  THEN Turn(snakeRef[1], directionRef, ScaledSignal(fingerPos))
                  ELSE directionRef]_vars

\* C15 witness: a message with two invocations of different coordinates has
\* been handled and the tracked signal is the second, mirrored.
C15_Witness_SecondOfTwo ==
    /\ lastOp = "onmessage"
    /\ Len(lastMsg) = 2
    /\ lastMsg[1].args # lastMsg[2].args
    /\ fingerPos.x = Num(CoordScale - lastMsg[2].args.x.v)
    /\ fingerPos.y = lastMsg[2].args.y
    /\ ticks > 0

----------------------------------------------------------------------------
(* Claims about the order of a tick, checked under SpecCourse *)

\* the head that this step leaves is less than 20 pixels from the food that
\* the step found
NewHeadNearFood ==
    Sq(snakeRef'[1].x - foodRef.x) + Sq(snakeRef'[1].y - foodRef.y)
        < Sq(20 * PosScale)

\* C16: a tick picks the food up exactly when the head it has just moved is
\* within the pickup radius of the food (as the claim states it).
C16_CollisionUsesNewHead ==
    [][lastOp' = "tick" =>
          (CountKind(effects', "spawnFood") = 1 <=> NewHeadNearFood)]_vars

----------------------------------------------------------------------------
(* Claims about segment identity, checked under SpecGame *)

\* C17: a tick leaves the id at every index of the chain, the head included,
\* as it was, and the id of every segment it appends differs from the ids of
\* all segments that were in the chain (as the claim states it).
C17_SegmentIdentityStable ==
    [][lastOp' = "tick" =>
          /\ \A i \in 1..Len(snakeRef) : snakeRef'[i].id = snakeRef[i].id
          /\ \A j \in (Len(snakeRef) + 1)..Len(snakeRef') :
                \A i \in 1..Len(snakeRef) : snakeRef'[j].id # snakeRef'[i].id]_vars

----------------------------------------------------------------------------
(* Claims about the deadband, checked under SpecCourse *)

\* the target of the tick that this step runs: the tracked signal scaled to
\* the canvas, or the wander target the tick has settled on
TickTarget ==
    IF fingerPos.isActive THEN ScaledSignal(fingerPos)
    ELSE [nan |-> FALSE, x |-> wanderTargetRef'.x, y |-> wanderTargetRef'.y]
\* the head, as the tick finds it, is less than 10 pixels from that target
TargetInDeadband ==
    Sq(TickTarget.x - snakeRef[1].x) + Sq(TickTarget.y - snakeRef[1].y)
        < Sq(10 * PosScale)

\* C18: a tick that finds the head less than 10 pixels from its target, also
\* exactly on it, leaves the Direction as it was.
C18_DeadbandHoldsDirection ==
    [][(lastOp' = "tick" /\ TargetInDeadband) =>
          directionRef' = directionRef]_vars

\* C18 witness: a tick has run with the tracked target exactly on the head
\* (distance 0).
C18_Witness_TargetOnHead ==
    /\ lastOp = "tick"
    /\ fingerPos.isActive
    /\ ScaledSignal(fingerPos).x = snakeRef[1].x
    /\ ScaledSignal(fingerPos).y = snakeRef[1].y

----------------------------------------------------------------------------
(* Claims about the speed of the head, checked under SpecCourse *)

\* the rounding of a step of the head, in units of 1 / PosScale pixel
StepEpsilon == 2
\* the head, as the tick finds it, is more than 10 pixels from its target
TargetBeyondDeadband ==
    Sq(TickTarget.x - snakeRef[1].x) + Sq(TickTarget.y - snakeRef[1].y)
        > Sq(10 * PosScale)
\* the advanced position is on the canvas
AdvanceOnCanvas == AdvanceX \in 0..Width /\ AdvanceY \in 0..Height
\* the squared length of the advance of this tick
AdvanceSq == Sq(AdvanceX - snakeRef[1].x) + Sq(AdvanceY - snakeRef[1].y)

\* C19 as the claim states it: every tick puts the head at the position
\* advanced by the speed along the Direction (when that is on the canvas).
C19_HeadAdvancesEveryTick ==
    [][(lastOp' = "tick" /\ AdvanceOnCanvas) =>
          /\ snakeRef'[1].x = AdvanceX
          /\ snakeRef'[1].y = AdvanceY]_vars

\* C19 amended: a tick whose target is more than 10 pixels from the head
\* advances the head by the speed (3 pixels) along the Direction as turned in
\* that tick, onto the advanced position when that is on the canvas and onto
\* the canvas in any case; a tick whose target is within 10 pixels leaves the
\* head, the body and the Direction where they were.
C19_HeadAdvancesOutsideDeadband ==
    [][lastOp' = "tick" =>
          IF TargetBeyondDeadband
          THEN /\ AdvanceSq >= Sq(SNAKE_SPEED * PosScale - StepEpsilon)
               /\ AdvanceSq <= Sq(SNAKE_SPEED * PosScale + StepEpsilon)
               /\ AdvanceOnCanvas =>
                      (snakeRef'[1].x = AdvanceX /\ snakeRef'[1].y = AdvanceY)
               /\ snakeRef'[1].x \in 0..Width
               /\ snakeRef'[1].y \in 0..Height
          ELSE /\ SubSeq(snakeRef', 1, Len(snakeRef)) = snakeRef
               /\ directionRef' = directionRef]_vars

\* C19 witness: the head moved in the tick before the last one and the last
\* tick, its target within the deadband, left it there.
C19_Witness_StoppedAtTarget ==
    /\ lastOp = "tick"
    /\ ticks >= 2
    /\ snakeRef[1].id = DateNow(ticks - 1)

----------------------------------------------------------------------------
(* Claims about the tracked signal at teardown, checked under Spec *)

\* C20: when disconnect() has returned the target source is not tracked (as
\* the claim states it).
C20_SignalClearedOnDisconnect == lastOp = "disconnect" => ~fingerPos.isActive

----------------------------------------------------------------------------
(* Claims about the number of sessions, checked under Spec *)

\* the sessions that are connecting or open on the transport's side
ActiveSessions == {s \in Sessions : phase[s] \in {"handshaking", "opened", "ready"}}

\* C21: at most one session of the adapter is connecting or open at any
\* time (as the claim states it).
C21_AtMostOneActiveSession == Cardinality(ActiveSessions) <= 1

----------------------------------------------------------------------------
(* Claims about the sampling timer, checked under SpecOverlay *)

\* C22: at most one interval timer is armed, and none while the game is not
\* active or when the overlay has unmounted; every connect() comes with the
\* arming of a new timer, the only one armed then, every disconnect() with
\* no timer left armed, and the armed timers change in no other step.
C22_OneSamplingTimer ==
    /\ [](Cardinality(armed) <= 1)
    /\ [](~isGameActive => armed = {})
    /\ [](~mounted => armed = {})
    /\ [][/\ lastOp' = "connect" =>
                (intervalRef' # intervalRef /\ armed' = {intervalRef'})
          /\ lastOp' = "disconnect" => armed' = {}
          /\ armed' # armed => lastOp' \in {"connect", "disconnect"}]_vars

\* C22 witness: the overlay unmounted during the second activation, whose
\* timer was armed, and no timer is armed.
C22_Witness_UnmountedWhileActive ==
    /\ ~mounted
    /\ lastOp = "disconnect"
    /\ intervalRef = 2
    /\ \E s \in Sessions : phase[s] \in {"handshaking", "opened", "ready", "closing"}
    /\ armed = {}

====
